---------------------------- MODULE Spec2Model ----------------------------
(***************************************************************************)
(* A model of purais.py: the AIVDM line loop of main (sentence checks,     *)
(* fragment group "jemma", LatestCache insert and drain), the LatestCache  *)
(* class on its own, the batch converters to_json_msgs / to_jsonais, and   *)
(* the normalizer aivdm_to_jsonais_dict with valid_eta / create_eta.       *)
(*                                                                         *)
(* Strings are sequences of one-character strings, so that the slices and  *)
(* the split the code performs on a line are computed, not assumed.        *)
(* None is the model of Python's None.                                     *)
(***************************************************************************)
EXTENDS Integers, Sequences, FiniteSets, TLC

\* Python's None, where a string is expected
None == <<"None">>

Max(a, b) == IF a >= b THEN a ELSE b

(***************************************************************************)
(* Python string primitives used by the code.                              *)
(***************************************************************************)

\* s[:-n] for n > 0
DropLast(s, n) == IF Len(s) <= n THEN <<>> ELSE SubSeq(s, 1, Len(s) - n)

\* s[:n]
Take(s, n) == IF Len(s) <= n THEN s ELSE SubSeq(s, 1, n)

\* s[-n] is an IndexError when the string has fewer than n characters
HasFromEnd(s, n) == Len(s) >= n

FromEnd(s, n) == s[Len(s) - n + 1]

\* s[-5:-4]: one character, or the empty string when the string is shorter than 5
Slice54(s) == IF Len(s) >= 5 THEN <<s[Len(s) - 4]>> ELSE <<>>

RECURSIVE SplitFrom(_, _, _)
SplitFrom(s, i, cur) ==
    IF i > Len(s) THEN <<cur>>
    ELSE IF s[i] = "," THEN <<cur>> \o SplitFrom(s, i + 1, <<>>)
    ELSE SplitFrom(s, i + 1, Append(cur, s[i]))

\* s.split(",")
Split(s) == SplitFrom(s, 1, <<>>)

RECURSIVE Join(_)
Join(m) ==
    IF Len(m) = 0 THEN <<>>
    ELSE IF Len(m) = 1 THEN m[1]
    ELSE m[1] \o <<",">> \o Join(Tail(m))

Digits == <<"0", "1", "2", "3", "4", "5", "6", "7", "8", "9">>

IsDigit(c) == \E i \in 1..10 : Digits[i] = c

DigitVal(c) == (CHOOSE i \in 1..10 : Digits[i] = c) - 1

\* int(s) of a string of at most one character succeeds on a digit only
IntOk(s) == Len(s) = 1 /\ IsDigit(s[1])

IntOf(s) == DigitVal(s[1])

RECURSIVE StrNat(_)
StrNat(n) == IF n < 10 THEN <<Digits[n + 1]>> ELSE StrNat(n \div 10) \o <<Digits[(n % 10) + 1]>>

\* "{0}".format(n) of an integer
StrInt(n) == IF n < 0 THEN <<"-">> \o StrNat(-n) ELSE StrNat(n)

(***************************************************************************)
(* ais.nmea.Checksum: the exclusive-or of the character codes, formatted   *)
(* as two upper-case hexadecimal digits.                                   *)
(***************************************************************************)
Upper == <<"A", "B", "C", "D", "E", "F", "G", "H", "I", "J", "K", "L", "M",
           "N", "O", "P", "Q", "R", "S", "T", "U", "V", "W", "X", "Y", "Z">>

Ord(c) ==
    IF IsDigit(c) THEN 48 + DigitVal(c)
    ELSE IF \E i \in 1..26 : Upper[i] = c THEN 64 + (CHOOSE i \in 1..26 : Upper[i] = c)
    ELSE IF c = "!" THEN 33
    ELSE IF c = "$" THEN 36
    ELSE IF c = "*" THEN 42
    ELSE IF c = "," THEN 44
    ELSE 10

RECURSIVE Xor(_, _)
Xor(a, b) ==
    IF a = 0 THEN b
    ELSE IF b = 0 THEN a
    ELSE (((a % 2) + (b % 2)) % 2) + (2 * Xor(a \div 2, b \div 2))

RECURSIVE XorAll(_)
XorAll(s) == IF Len(s) = 0 THEN 0 ELSE Xor(Ord(s[1]), XorAll(Tail(s)))

\* "%02X" % n
Hex2(n) ==
    LET hex == <<"0", "1", "2", "3", "4", "5", "6", "7", "8", "9", "A", "B", "C", "D", "E", "F">>
    IN <<hex[(n \div 16) + 1], hex[(n % 16) + 1]>>

Checksum(sentence) == Hex2(XorAll(sentence))


(***************************************************************************)
(* Bounds of the model.  Time is counted in ticks of 1/20 s, the arrival   *)
(* rate main assumes, so that main's 20*maxtime entries is maxtime ticks;  *)
(* MinMaxtime and MinMaxsize stand for main's 120 s and 1000 entries on    *)
(* that scale, reduced so that the cache fills within the clock's range.   *)
(***************************************************************************)
MinMaxtime == 2

MinMaxsize == 1

MaxClock == 3

MaxJemma == 1

\* the largest maxsize and maxtime a LatestCache used on its own is built with
MaxCacheSize == 2

MaxCacheAge == 2

\* the longest batch a converter called on its own is given
MaxBatch == 3

(***************************************************************************)
(* class LatestCache(OrderedDict): a sequence of [k, v] in insertion order *)
(***************************************************************************)
Keys(c) == [i \in 1..Len(c) |-> c[i].k]

Without(c, key) == SelectSeq(c, LAMBDA e : e.k # key)

\* popitem() with last left true: the last entry goes
PopLast(c) == SubSeq(c, 1, Len(c) - 1)

\* OrderedDict.popitem(0): last is false, the first entry goes
PopFirst(c) == Tail(c)

\* a key given to __setitem__: the number n, or an object that is no Number
Num(n) == [number |-> TRUE, n |-> n]

NotNumber == [number |-> FALSE, n |-> 0]

\* isinstance(value, tuple) and len(value) == 4
IsTuple4(value) == Len(value) = 4

\* super().__setitem__(key, value); self.move_to_end(key)
MoveToEnd(c, key, value) == Append(Without(c, key), [k |-> key, v |-> value])

\* if len(self) > self.maxsize: self.popitem(0)
Shed(c, size) == IF Len(c) > size THEN PopFirst(c) ELSE c

\* __setitem__(key, value)
SetItem(c, key, value, size) ==
    Shed(IF key.number /\ IsTuple4(value) THEN MoveToEnd(c, key.n, value) ELSE c, size)

\* the values, the last set first
ValuesNewestFirst(c) == [i \in 1..Len(c) |-> c[Len(c) + 1 - i].v]

\* list(d.values()) of a dict kept as a sequence of [k, v]
Values(c) == [i \in 1..Len(c) |-> c[i].v]

\* the drain of get_latest with the test k > t for the entries to return
DrainedYounger(c, t) ==
    [raised |-> FALSE, ret |-> Values(SelectSeq(c, LAMBDA e : e.k > t)), cache |-> <<>>]

\* t -= self.maxtime, then the two comprehensions: the entries with k < t are popped
\* and forgotten, those with k >= t popped and returned
Drained(c, t) ==
    [raised |-> FALSE, ret |-> Values(SelectSeq(c, LAMBDA e : e.k >= t)), cache |-> <<>>]

\* the test of get_latest with <= for <
DueAtOrBefore(c, t, wait_secs, size) == c[1].k <= t - wait_secs \/ Len(c) = size

\* the test of get_latest without the test of the size
DueByAge(c, t, wait_secs, size) == c[1].k < t - wait_secs

\* keys[0] < t - wait_secs or len(keys) == self.maxsize
Due(c, t, wait_secs, size) == Keys(c)[1] < t - wait_secs \/ Len(Keys(c)) = size

\* get_latest(wait_secs) called when time.time() is t; keys[0] of an empty cache is
\* an IndexError
GetLatest(c, t, wait_secs, size, age) ==
    IF Len(c) = 0 THEN [raised |-> TRUE, ret |-> <<>>, cache |-> c]
    ELSE IF Due(c, t, wait_secs, size) THEN Drained(c, t - age)
    ELSE [raised |-> FALSE, ret |-> <<>>, cache |-> c]

(***************************************************************************)
(* main: the configuration                                                 *)
(***************************************************************************)
\* maxtime = max(hold_secs, 120)
Maxtime(hold) == Max(hold, MinMaxtime)

\* maxsize = max(20*maxtime, 1000), maxtime in ticks
Maxsize(hold) == Max(Maxtime(hold), MinMaxsize)

(***************************************************************************)
(* The input lines                                                         *)
(***************************************************************************)
AIVDM == <<"!", "A", "I", "V", "D", "M">>

NL == "\n"

\* the six-bit payload field of fragment idx
FragChars == <<"P", "Q", "R", "S">>

\* a line of the given fields, with a right or a tampered checksum, ended by a
\* newline or (the last line of a file) not
MkLine(fields, tampered, nl) ==
    LET body == Join(fields)
        ck == Xor(XorAll(Tail(body)), IF tampered THEN 1 ELSE 0)
    IN body \o <<"*">> \o Hex2(ck) \o (IF nl THEN <<NL>> ELSE <<>>)

Fields(tag, tot, idx, ch) ==
    <<tag, <<Digits[tot + 1]>>, <<Digits[idx + 1]>>, <<>>, <<ch>>, <<FragChars[idx]>>,
      <<IF ch = "A" THEN "0" ELSE "2">>>>

\* (total, index, channel) of the sentences read: a message in one sentence or in
\* two, the first of two on channel A, the last sentence of a message on either
Sentences == {<<1, 1, "A">>, <<1, 1, "B">>, <<2, 1, "A">>, <<2, 2, "A">>, <<2, 2, "B">>}

GoodLines == {MkLine(Fields(AIVDM, f[1], f[2], f[3]), FALSE, TRUE) : f \in Sentences}

TamperedLines == {MkLine(Fields(AIVDM, f[1], f[2], "A"), TRUE, TRUE) : f \in {<<1, 1>>, <<2, 1>>}}

OtherTagLines == {MkLine(Fields(<<"!", "A", "I", "V", "D", "O">>, 1, 1, "A"), FALSE, TRUE)}

ShortLines == {<<NL>>}

\* an AIVDM line of 8 fields, and one of 6
BadFieldLines ==
    {MkLine(<<AIVDM, <<"1">>, <<"1">>, <<>>, <<"A">>, <<"P">>, <<>>, <<"0">>>>, FALSE, TRUE),
     MkLine(<<AIVDM, <<"1">>, <<"1">>, <<>>, <<"A">>, <<"P">>>>, FALSE, TRUE)}

UnterminatedLines == {MkLine(Fields(AIVDM, 1, 1, "A"), FALSE, FALSE)}

Lines == GoodLines \cup TamperedLines \cup OtherTagLines \cup ShortLines
            \cup BadFieldLines \cup UnterminatedLines

EndsWithNewline(l) == Len(l) > 0 /\ l[Len(l)] = NL


(***************************************************************************)
(* Decoded field sets and records: functions from field names to values.   *)
(* A fractional number is [neg, int, frac], frac counting 1e-8 units.      *)
(***************************************************************************)
EmptyDict == [x \in {} |-> 0]

Has(d, key) == key \in DOMAIN d

Put(d, key, value) == [x \in DOMAIN d \cup {key} |-> IF x = key THEN value ELSE d[x]]

\* len(jdict)
DictLen(d) == Cardinality(DOMAIN d)

\* a float
Dec(neg, int, frac) == [neg |-> neg, int |-> int, frac |-> frac, whole |-> FALSE]

\* an int where a float may stand as well (the default -1 of speed and course)
Whole(n) == [neg |-> n < 0, int |-> IF n < 0 THEN -n ELSE n, frac |-> 0, whole |-> TRUE]

\* round(float(v), n) for n = 1 or 7: to the nearest, a tie to the even digit
Round(v, n) ==
    LET unit == IF n = 1 THEN 10000000 ELSE 10
        q == v.frac \div unit
        r == v.frac % unit
        up == (2 * r > unit) \/ (2 * r = unit /\ q % 2 = 1)
        f == (IF up THEN q + 1 ELSE q) * unit
    IN IF f >= 100000000 THEN Dec(v.neg, v.int + 1, 0) ELSE Dec(v.neg, v.int, f)

\* the longitude is not looked at
valid_latlonLatOnly(lat, lon) == ~(lat.int >= 90)

\* abs(lat) >= 90.0 or abs(lon) >= 180.0
valid_latlon(lat, lon) == ~(lat.int >= 90 \/ lon.int >= 180)

RECURSIVE LStrip(_, _)
LStrip(s, c) == IF Len(s) > 0 /\ s[1] = c THEN LStrip(Tail(s), c) ELSE s

RECURSIVE RStrip(_, _)
RStrip(s, c) == IF Len(s) > 0 /\ s[Len(s)] = c THEN RStrip(SubSeq(s, 1, Len(s) - 1), c) ELSE s

\* s.strip("@").strip(" ")
StripPad(s) == RStrip(LStrip(RStrip(LStrip(s, "@"), "@"), " "), " ")

valid_eta(d) ==
    /\ Has(d, "eta_day") /\ Has(d, "eta_hour") /\ Has(d, "eta_minute")
    /\ ~(d["eta_day"] < 1 \/ d["eta_day"] > 31
           \/ d["eta_hour"] < 0 \/ d["eta_hour"] > 23
           \/ d["eta_minute"] < 0 \/ d["eta_minute"] > 59)

DaysInMonth(y, mo) ==
    IF mo = 2 THEN (IF (y % 4 = 0 /\ y % 100 # 0) \/ y % 400 = 0 THEN 29 ELSE 28)
    ELSE IF mo \in {4, 6, 9, 11} THEN 30 ELSE 31

\* datetime(year, month, day, hour, minute, 0) raises ValueError on such a date
DateOk(y, mo, day) == mo >= 1 /\ mo <= 12 /\ day >= 1 /\ day <= DaysInMonth(y, mo)

MonthAbbr == <<<<"J", "a", "n">>, <<"F", "e", "b">>, <<"M", "a", "r">>, <<"A", "p", "r">>,
               <<"M", "a", "y">>, <<"J", "u", "n">>, <<"J", "u", "l">>, <<"A", "u", "g">>,
               <<"S", "e", "p">>, <<"O", "c", "t">>, <<"N", "o", "v">>, <<"D", "e", "c">>>>

TwoDigits(n) == <<Digits[(n \div 10) + 1], Digits[(n % 10) + 1]>>

\* strftime("%b%d %H:%M")
EtaText(mo, day, hour, minute) ==
    MonthAbbr[mo] \o TwoDigits(day) \o <<" ">> \o TwoDigits(hour) \o <<":">> \o TwoDigits(minute)

\* the date built, had the year been chosen by the current month alone
EtaDateByUtcMonth(d, utc) ==
    LET eta_month == IF Has(d, "eta_month") THEN d["eta_month"] ELSE utc.month
        eta_year == IF utc.month >= 11 THEN utc.year + 1 ELSE utc.year
    IN [year |-> eta_year, month |-> eta_month, day |-> d["eta_day"],
        hour |-> d["eta_hour"], minute |-> d["eta_minute"]]

\* create_eta, utc = [year, month] of datetime.utcnow(): the date it builds
EtaDate(d, utc) ==
    LET eta_month == IF Has(d, "eta_month") THEN d["eta_month"] ELSE utc.month
        eta_year == IF utc.month >= 11 /\ eta_month <= 2 THEN utc.year + 1 ELSE utc.year
    IN [year |-> eta_year, month |-> eta_month, day |-> d["eta_day"],
        hour |-> d["eta_hour"], minute |-> d["eta_minute"]]

create_eta(d, utc) ==
    LET dt == EtaDate(d, utc)
    IN IF DateOk(dt.year, dt.month, dt.day)
       THEN [raised |-> FALSE, eta |-> EtaText(dt.month, dt.day, dt.hour, dt.minute)]
       ELSE [raised |-> TRUE, eta |-> <<>>]


(***************************************************************************)
(* aivdm_to_jsonais_dict.  dec is what ais.decode gave: it raised, or the  *)
(* decoded fields.  The result is [raised, none, rec]: an exception, None, *)
(* or the record.                                                          *)
(***************************************************************************)
Raised == [raised |-> TRUE, none |-> FALSE, rec |-> EmptyDict]

NoRecord == [raised |-> FALSE, none |-> TRUE, rec |-> EmptyDict]

Record(j) == [raised |-> FALSE, none |-> FALSE, rec |-> j]

\* if cond: j[key] = value
PutIf(j, cond, key, value) == IF cond THEN Put(j, key, value) ELSE j

Header(d, rxtime) ==
    Put(Put(Put(EmptyDict, "msgtype", d["id"]), "mmsi", d["mmsi"]), "rxtime", rxtime)

\* speed / course: -1 when absent, else rounded to one decimal
Rounded1(d, key) == IF Has(d, key) THEN Round(d[key], 1) ELSE Whole(-1)

\* x and y present: the rounded position, checked
PositionOk(d) == valid_latlon(Round(d["y"], 7), Round(d["x"], 7))

PutPosition(j, d) == Put(Put(j, "lon", Round(d["x"], 7)), "lat", Round(d["y"], 7))

\* msgtype in [1, 2, 3, 18, 19]
NormCNB(d, rxtime) ==
    LET j1 == Header(d, rxtime)
        j2 == PutIf(j1, Has(d, "nav_status"), "status", d["nav_status"])
        j3 == Put(j2, "speed", Rounded1(d, "sog"))
        j4 == PutIf(PutIf(j3, Has(d, "x") /\ Has(d, "y"), "lon", Round(d["x"], 7)),
                    Has(d, "x") /\ Has(d, "y"), "lat", Round(d["y"], 7))
        j5 == Put(j4, "course", Rounded1(d, "cog"))
        j6 == Put(j5, "heading", IF Has(d, "true_heading") THEN d["true_heading"] ELSE -1)
    IN IF Has(d, "x") /\ Has(d, "y") /\ ~PositionOk(d) THEN NoRecord ELSE Record(j6)

\* jdict["eta"] = create_eta(decoded): eta is what create_eta gave
PutEta(j, eta) == IF eta.raised THEN Raised ELSE Record(Put(j, "eta", eta.eta))

\* msgtype in [5, 24]
NormStatic(d, rxtime, utc) ==
    LET j1 == Header(d, rxtime)
        j2 == PutIf(j1, Has(d, "imo_num"), "imo", d["imo_num"])
        j3 == PutIf(j2, Has(d, "draught"), "draught", Round(d["draught"], 1))
        j4 == PutIf(j3, Has(d, "destination"), "destination", StripPad(d["destination"]))
    IN IF valid_eta(d) THEN PutEta(j4, create_eta(d, utc)) ELSE Record(j4)

\* msgtype in [27]
NormLongRange(d, rxtime) ==
    LET j1 == Header(d, rxtime)
        j2 == PutIf(j1, Has(d, "nav_status"), "status", d["nav_status"])
        j3 == PutPosition(j2, d)
        j4 == Put(j3, "speed", Rounded1(d, "sog"))
        j5 == Put(j4, "course", Rounded1(d, "cog"))
        j6 == PutIf(j5, Has(d, "gnss"), "gnss", d["gnss"])
    IN IF Has(d, "x") /\ Has(d, "y") /\ PositionOk(d) THEN Record(j6) ELSE NoRecord

IsApp(d, msgtype, dac, fi) ==
    d["id"] = msgtype /\ Has(d, "dac") /\ d["dac"] = dac /\ Has(d, "fi") /\ d["fi"] = fi

Count(d, key) == IF Has(d, key) THEN d[key] ELSE 0

\* the payload fields of a binary message are set: the header follows them
BinaryHeader(j, d, rxtime) ==
    IF DictLen(j) > 0
    THEN Record(Put(Put(Put(Put(Put(j, "msgtype", d["id"]), "mmsi", d["mmsi"]),
                            "rxtime", rxtime), "dac", d["dac"]), "fid", d["fi"]))
    ELSE NoRecord

\* msgtype in [6, 8]
NormBinary(d, rxtime) ==
    LET personsApp == IsApp(d, 6, 1, 40) \/ IsApp(d, 8, 1, 16) \/ IsApp(d, 8, 1, 24)
        crewApp == IsApp(d, 8, 200, 55)
        sum == Count(d, "passengers") + Count(d, "crew") + Count(d, "yet_more_personnel")
        j1 == PutIf(EmptyDict, personsApp, "persons_on_board", d["persons"])
        j2 == PutIf(j1, crewApp, "persons_on_board", sum)
    IN IF personsApp /\ ~Has(d, "persons") THEN NoRecord
       ELSE IF crewApp /\ ~Has(d, "passengers") /\ ~Has(d, "crew")
                       /\ ~Has(d, "yet_more_personnel") THEN NoRecord
       ELSE IF crewApp /\ sum = 0 THEN NoRecord
       ELSE BinaryHeader(j2, d, rxtime)

\* msgtype in [1, 2, 3, 5, 18, 19, 24]: name, type, vendor, callsign, dimensions
PutIdentity(j, d) ==
    LET j1 == PutIf(j, Has(d, "name"), "shipname", StripPad(d["name"]))
        j2 == PutIf(j1, Has(d, "type_and_cargo"), "shiptype", d["type_and_cargo"])
        j3 == PutIf(j2, Has(d, "vendor_id") /\ StripPad(d["vendor_id"]) # <<>>,
                    "vendorid", StripPad(d["vendor_id"]))
        j4 == PutIf(j3, Has(d, "callsign") /\ Len(StripPad(d["callsign"])) > 0,
                    "callsign", StripPad(d["callsign"]))
        j5 == PutIf(PutIf(j4, Has(d, "dim_a") /\ Has(d, "dim_b"), "length", d["dim_a"] + d["dim_b"]),
                    Has(d, "dim_a") /\ Has(d, "dim_b"), "ref_front", d["dim_a"])
        j6 == PutIf(PutIf(j5, Has(d, "dim_c") /\ Has(d, "dim_d"), "width", d["dim_c"] + d["dim_d"]),
                    Has(d, "dim_c") /\ Has(d, "dim_d"), "ref_left", d["dim_c"])
    IN j6

CNBTypes == {1, 2, 3, 18, 19}

StaticTypes == {5, 24}

\* the fields of the message's type, before the identity fields
NormByType(d, rxtime, utc) ==
    IF d["id"] \in CNBTypes THEN NormCNB(d, rxtime)
    ELSE IF d["id"] \in StaticTypes THEN NormStatic(d, rxtime, utc)
    ELSE IF d["id"] = 27 THEN NormLongRange(d, rxtime)
    ELSE IF d["id"] \in {6, 8} THEN NormBinary(d, rxtime)
    ELSE Record(EmptyDict)

\* if len(jdict) > 0: return jdict
NonEmpty(j) == IF DictLen(j) > 0 THEN Record(j) ELSE NoRecord

\* r is what the fields of the type gave: the identity fields follow, then the return
NormIdentity(r, d) ==
    IF r.raised \/ r.none THEN r
    ELSE NonEmpty(IF d["id"] \in CNBTypes \cup StaticTypes THEN PutIdentity(r.rec, d) ELSE r.rec)

aivdm_to_jsonais_dict(dec, rxtime, utc) ==
    IF dec.raised THEN Raised
    ELSE IF ~Has(dec.fields, "mmsi") \/ ~Has(dec.fields, "id") THEN NoRecord
    ELSE NormIdentity(NormByType(dec.fields, rxtime, utc), dec.fields)


(***************************************************************************)
(* kvp_filter.  A predicate is the string given on the command line.       *)
(***************************************************************************)
\* the characters of the field names predicates are written with
FieldChars ==
    [mmsi |-> <<"m", "m", "s", "i">>,
     id |-> <<"i", "d">>,
     msgtype |-> <<"m", "s", "g", "t", "y", "p", "e">>,
     speed |-> <<"s", "p", "e", "e", "d">>,
     sog |-> <<"s", "o", "g">>,
     shiptype |-> <<"s", "h", "i", "p", "t", "y", "p", "e">>,
     shipname |-> <<"s", "h", "i", "p", "n", "a", "m", "e">>,
     name |-> <<"n", "a", "m", "e">>]

\* the fields whose value is a float, or an int standing for one
NumKeys == {"speed", "course", "lon", "lat", "draught", "sog", "cog", "x", "y"}

\* the fields whose value is a string
StrKeys == {"rxtime", "destination", "eta", "shipname", "vendorid", "callsign",
            "name", "vendor_id"}

RECURSIVE TrimZeros(_)
TrimZeros(s) == IF Len(s) > 1 /\ s[Len(s)] = "0" THEN TrimZeros(SubSeq(s, 1, Len(s) - 1)) ELSE s

RECURSIVE PadTo(_, _)
PadTo(s, n) == IF Len(s) >= n THEN s ELSE PadTo(<<"0">> \o s, n)

\* str(v) of a number
StrNum(v) ==
    (IF v.neg THEN <<"-">> ELSE <<>>) \o StrNat(v.int)
        \o (IF v.whole THEN <<>> ELSE <<".">> \o TrimZeros(PadTo(StrNat(v.frac), 8)))

StrValue(key, value) ==
    IF key \in NumKeys THEN StrNum(value)
    ELSE IF key \in StrKeys THEN value
    ELSE StrInt(value)

\* str(val.get(item_key))
StrGet(val, item_key) ==
    IF \E k \in DOMAIN val \cap DOMAIN FieldChars : FieldChars[k] = item_key
    THEN LET k == CHOOSE k \in DOMAIN val \cap DOMAIN FieldChars : FieldChars[k] = item_key
         IN StrValue(k, val[k])
    ELSE <<"N", "o", "n", "e">>

AllDigits(s) == \A i \in 1..Len(s) : IsDigit(s[i])

RECURSIVE NatOf(_)
NatOf(s) == IF Len(s) = 0 THEN 0 ELSE (10 * NatOf(SubSeq(s, 1, Len(s) - 1))) + DigitVal(s[Len(s)])

DotAt(s) == IF \E i \in 1..Len(s) : s[i] = "." THEN CHOOSE i \in 1..Len(s) : s[i] = "." ELSE 0

Unsigned(s) == IF Len(s) > 0 /\ s[1] = "-" THEN Tail(s) ELSE s

\* float(s) succeeds: an optional sign, digits, an optional point and digits
FloatOk(s) ==
    LET u == Unsigned(s)
        p == DotAt(u)
        ip == IF p = 0 THEN u ELSE SubSeq(u, 1, p - 1)
        fp == IF p = 0 THEN <<>> ELSE SubSeq(u, p + 1, Len(u))
    IN AllDigits(ip) /\ AllDigits(fp) /\ Len(ip) + Len(fp) > 0 /\ Len(fp) <= 8

RECURSIVE PadRight(_, _)
PadRight(s, n) == IF Len(s) >= n THEN s ELSE PadRight(s \o <<"0">>, n)

FloatOf(s) ==
    LET u == Unsigned(s)
        p == DotAt(u)
        ip == IF p = 0 THEN u ELSE SubSeq(u, 1, p - 1)
        fp == IF p = 0 THEN <<>> ELSE SubSeq(u, p + 1, Len(u))
    IN Dec(Len(s) > 0 /\ s[1] = "-", NatOf(ip), NatOf(PadRight(fp, 8)))

IsZero(a) == a.int = 0 /\ a.frac = 0

MagLt(a, b) == a.int < b.int \/ (a.int = b.int /\ a.frac < b.frac)

NumLt(a, b) ==
    IF IsZero(a) /\ IsZero(b) THEN FALSE
    ELSE IF a.neg /\ ~b.neg THEN TRUE
    ELSE IF ~a.neg /\ b.neg THEN FALSE
    ELSE IF a.neg THEN MagLt(b, a) ELSE MagLt(a, b)

NumEq(a, b) == ~NumLt(a, b) /\ ~NumLt(b, a)

\* s.startswith(sub)
ContainsPrefix(s, sub) == Len(sub) <= Len(s) /\ SubSeq(s, 1, Len(sub)) = sub

\* operator.contains(s, sub)
Contains(s, sub) ==
    \E i \in 1..(Len(s) + 1) : i + Len(sub) - 1 <= Len(s) /\ SubSeq(s, i, i + Len(sub) - 1) = sub

Compare(op, a, b) ==
    IF op = <<"g", "t">> THEN NumLt(b, a)
    ELSE IF op = <<"l", "t">> THEN NumLt(a, b)
    ELSE IF op = <<"l", "e">> THEN NumLt(a, b) \/ NumEq(a, b)
    ELSE NumLt(b, a) \/ NumEq(a, b)

\* one turn of the loop: the predicate lets the record pass
ItemOk(val, item) ==
    LET kv_list == Split(item)
    IN IF Len(kv_list) < 3 THEN FALSE
       ELSE LET value == StrGet(val, kv_list[1])
                item_operator == kv_list[2]
                item_values == SubSeq(kv_list, 3, Len(kv_list))
            IN IF item_operator = <<"e", "q">>
               THEN \E i \in 1..Len(item_values) : item_values[i] = value
               ELSE IF item_operator \in {<<"g", "t">>, <<"l", "t">>, <<"l", "e">>, <<"g", "e">>}
               THEN FloatOk(value) /\ FloatOk(item_values[1])
                       /\ Compare(item_operator, FloatOf(value), FloatOf(item_values[1]))
               ELSE IF item_operator = <<"c", "o", "n", "t", "a", "i", "n", "s">>
               THEN Contains(value, item_values[1])
               ELSE TRUE

RECURSIVE kvp_filter(_, _)
kvp_filter(val, kvp) ==
    IF Len(kvp) = 0 THEN TRUE
    ELSE IF ~ItemOk(val, kvp[1]) THEN FALSE
    ELSE kvp_filter(val, Tail(kvp))


(***************************************************************************)
(* to_json_msgs and to_jsonais.  aivdm_msgs is the drained batch, decs[i]  *)
(* what ais.decode gives for its i-th payload.  msgs, a Python dict, is a  *)
(* sequence of [k, v] in the order the keys were first set.  The result is *)
(* [raised, none, msgs]: an exception, None, or the values to encode.      *)
(***************************************************************************)
TicksPerSec == 20

\* datetime.fromtimestamp(t, tz=utc).strftime("%Y%m%d%H%M%S"): the second of t
RxTimeStr(t) == StrInt(t \div TicksPerSec)

\* msgs[key] = value
DictSet(msgs, key, value) ==
    IF \E i \in 1..Len(msgs) : msgs[i].k = key
    THEN [i \in 1..Len(msgs) |-> IF msgs[i].k = key THEN [k |-> key, v |-> value] ELSE msgs[i]]
    ELSE Append(msgs, [k |-> key, v |-> value])

\* "{0}_{1}".format(a, b): the key without the number of fields
LatestKeyOfTwo(a, b, c) == StrInt(a) \o <<"_">> \o StrInt(b)

\* "{0}_{1}_{2}".format(a, b, c)
LatestKey(a, b, c) == StrInt(a) \o <<"_">> \o StrInt(b) \o <<"_">> \o StrInt(c)

BatchRaised == [raised |-> TRUE, none |-> FALSE, msgs |-> <<>>]

BatchResult(msgs) ==
    IF Len(msgs) > 0 THEN [raised |-> FALSE, none |-> FALSE, msgs |-> Values(msgs)]
    ELSE [raised |-> FALSE, none |-> TRUE, msgs |-> <<>>]

Unbound == [bound |-> FALSE, fields |-> EmptyDict]

Bound(d) == [bound |-> TRUE, fields |-> d]

RECURSIVE JsonLoop(_, _, _, _, _, _)

\* the body of the loop of to_json_msgs after the try: cur is the local decoded
JsonItem(decs, i, kvp, latest_, msgs, cur) ==
    IF ~cur.bound THEN BatchRaised
    ELSE IF ~kvp_filter(cur.fields, kvp) THEN JsonLoop(decs, i + 1, kvp, latest_, msgs, cur)
    ELSE IF ~latest_
    THEN JsonLoop(decs, i + 1, kvp, latest_, DictSet(msgs, Len(msgs), cur.fields), cur)
    ELSE IF Has(cur.fields, "mmsi") /\ Has(cur.fields, "id")
    THEN JsonLoop(decs, i + 1, kvp, latest_,
                  DictSet(msgs, LatestKey(cur.fields["mmsi"], cur.fields["id"],
                                          DictLen(cur.fields)), cur.fields),
                  cur)
    ELSE BatchRaised

\* the loop of to_json_msgs from item i on; decoded is the local the loop leaves set
JsonLoop(decs, i, kvp, latest_, msgs, decoded) ==
    IF i > Len(decs) THEN BatchResult(msgs)
    ELSE JsonItem(decs, i, kvp, latest_, msgs,
                  IF decs[i].raised THEN decoded ELSE Bound(decs[i].fields))

to_json_msgs(aivdm_msgs, decs, kvp, latest_) == JsonLoop(decs, 1, kvp, latest_, <<>>, Unbound)

\* msgs after the body of the loop of to_jsonais: r is what aivdm_to_jsonais_dict gave
JsonaisItem(msgs, kvp, latest_, r) ==
    IF r.raised \/ r.none THEN msgs
    ELSE IF kvp_filter(r.rec, kvp)
    THEN DictSet(msgs,
                 IF latest_ THEN LatestKey(r.rec["mmsi"], r.rec["msgtype"], DictLen(r.rec))
                 ELSE Len(msgs),
                 r.rec)
    ELSE msgs

\* the loop of to_jsonais from item i on
RECURSIVE JsonaisLoop(_, _, _, _, _, _, _)
JsonaisLoop(aivdm_msgs, decs, i, kvp, latest_, utc, msgs) ==
    IF i > Len(aivdm_msgs) THEN BatchResult(msgs)
    ELSE JsonaisLoop(aivdm_msgs, decs, i + 1, kvp, latest_, utc,
                     JsonaisItem(msgs, kvp, latest_,
                                 aivdm_to_jsonais_dict(decs[i], RxTimeStr(aivdm_msgs[i][4]), utc)))

to_jsonais(aivdm_msgs, decs, kvp, latest_, utc) ==
    JsonaisLoop(aivdm_msgs, decs, 1, kvp, latest_, utc, <<>>)


(***************************************************************************)
(* The state.                                                              *)
(*   out_format, channel, hold_secs, latest: the arguments of main         *)
(*   now: the last value time.time() gave (time is read when a payload is  *)
(*        stored and when the cache is drained, and never runs backwards)  *)
(*   jemma, latest_cache: the fragment group and the cache                 *)
(*   line, full_msg, chan, pad: the locals of the last turn of the loop    *)
(*   aivdm_msgs, printed: what that turn drained and what it printed       *)
(*   pc: where that turn ended                                             *)
(*   call, ret: a function called on its own, and what it returned         *)
(***************************************************************************)
\* maxsize and maxtime are the fields of latest_cache, now is the last time.time() read,
\* printed is what the last turn wrote to stdout, pc is where the last turn ended;
\* call and ret are an operation called on its own and what it returned
VARIABLES out_format, channel, hold_secs, latest, maxsize, maxtime, now, jemma,
          latest_cache, line, full_msg, chan, pad, aivdm_msgs, printed, pc, call, ret

vars == <<out_format, channel, hold_secs, latest, maxsize, maxtime, now, jemma,
          latest_cache, line, full_msg, chan, pad, aivdm_msgs, printed, pc, call, ret>>

config == <<out_format, channel, hold_secs, latest, maxsize, maxtime>>

\* nothing was written to stdout
NothingPrinted == [out |-> "nothing"]

\* the arguments the runs are started with: <<out_format, channel, hold_secs, latest>>,
\* each channel filter with each hold time
Configs ==
    {<<"raw", None, 0, FALSE>>, <<"raw", <<"A">>, 0, FALSE>>,
     <<"json", None, 0, FALSE>>, <<"jsonais", None, 2, TRUE>>,
     <<"jsonais", <<"A">>, 0, FALSE>>, <<"json", <<"A">>, 2, TRUE>>}

NoCall == [op |-> "none"]

(***************************************************************************)
(* main: one turn of the loop, up to the assembly of the payload           *)
(***************************************************************************)
RECURSIVE Concat(_)
Concat(ss) == IF Len(ss) = 0 THEN <<>> ELSE ss[1] \o Concat(Tail(ss))

\* full_msg had the loop put each payload in front: full_msg = msg[5] + full_msg
FullMsgNewestFirst(jem) == Concat([i \in 1..Len(jem) |-> jem[Len(jem) + 1 - i][6]])

\* full_msg after the for loop over jemma
FullMsg(jem) == Concat([i \in 1..Len(jem) |-> jem[i][6]])

\* chan after the for loop over jemma
LastChan(jem) == jem[Len(jem)][5]

Turn(where, jem, msg, ch, p) ==
    [pc |-> where, jemma |-> jem, full_msg |-> msg, chan |-> ch, pad |-> p]

\* what the turn computes from the line alone, for each input line:
\*   short: line[-3] is an IndexError
\*   rejected: not ais.nmea.Checksum(line[:-5]) != line[-3]
\*   tag: line[:6];  m: line.split(",");  padstr: line[-5:-4]
Scan ==
    [l \in Lines |->
        [short |-> ~HasFromEnd(l, 3),
         rejected |-> HasFromEnd(l, 3) /\ ~(Checksum(DropLast(l, 5)) # <<FromEnd(l, 3)>>),
         tag |-> Take(l, 6),
         m |-> Split(l),
         padstr |-> Slice54(l)]]

\* the turn, had the test of the number of fields no jemma.clear()
FrontKeepsGroup(l, jem, format) ==
    LET s == Scan[l]
    IN IF s.short THEN Turn("exc_line", <<>>, <<>>, None, 0)
       ELSE IF s.rejected THEN Turn("checksum", <<>>, <<>>, None, 0)
       ELSE IF s.tag # AIVDM THEN Turn("skip", jem, <<>>, None, 0)
       ELSE IF Len(s.m) # 7 THEN Turn("fields", jem, <<>>, None, 0)
       ELSE IF format = "raw" THEN Turn("raw", jem, <<>>, None, 0)
       ELSE IF s.m[2] # s.m[3] THEN Turn("wait", Append(jem, s.m), <<>>, None, 0)
       ELSE IF ~IntOk(s.padstr)
       THEN Turn("exc_pad", <<>>, Append(jem, s.m)[1][6], Append(jem, s.m)[1][5], 0)
       ELSE Turn("assembled", Append(jem, s.m), FullMsg(Append(jem, s.m)),
                 LastChan(Append(jem, s.m)), IntOf(s.padstr))

Front(l, jem, format) ==
    LET s == Scan[l]
    IN IF s.short THEN Turn("exc_line", <<>>, <<>>, None, 0)
       ELSE IF s.rejected THEN Turn("checksum", <<>>, <<>>, None, 0)
       ELSE IF s.tag # AIVDM THEN Turn("skip", jem, <<>>, None, 0)
       ELSE IF Len(s.m) # 7 THEN Turn("fields", <<>>, <<>>, None, 0)
       ELSE IF format = "raw" THEN Turn("raw", jem, <<>>, None, 0)
       ELSE IF s.m[2] # s.m[3] THEN Turn("wait", Append(jem, s.m), <<>>, None, 0)
       ELSE IF ~IntOk(s.padstr)
       THEN Turn("exc_pad", <<>>, Append(jem, s.m)[1][6], Append(jem, s.m)[1][5], 0)
       ELSE Turn("assembled", Append(jem, s.m), FullMsg(Append(jem, s.m)),
                 LastChan(Append(jem, s.m)), IntOf(s.padstr))

\* if channel is None or chan == channel
ChannelPasses(ch) == channel = None \/ ch = channel

CanRead == pc # "eof" /\ (pc = "start" \/ EndsWithNewline(line))

\* the locals as the turn f leaves them, had the turn no jemma.clear() at its end
LocalsKeepGroup(l, f) ==
    /\ line' = l
    /\ jemma' = f.jemma
    /\ full_msg' = f.full_msg
    /\ chan' = f.chan
    /\ pad' = f.pad

\* the locals and the group as the turn f leaves them
Locals(l, f) ==
    /\ line' = l
    /\ jemma' = IF f.pc = "assembled" THEN <<>> ELSE f.jemma
    /\ full_msg' = f.full_msg
    /\ chan' = f.chan
    /\ pad' = f.pad

\* f, a turn that ends before the payload is assembled
NotFinal(l, f) ==
    /\ f.pc # "assembled"
    /\ Len(f.jemma) <= MaxJemma
    /\ Locals(l, f)
    /\ pc' = f.pc
    /\ printed' = IF f.pc = "raw" /\ (channel = None \/ Scan[l].m[5] = channel)
                  THEN [out |-> "line", text |-> l]
                  ELSE NothingPrinted

LineNotFinal(l) ==
    /\ CanRead
    /\ NotFinal(l, Front(l, jemma, out_format))
    /\ aivdm_msgs' = <<>>
    /\ UNCHANGED <<config, now, latest_cache, call, ret>>

(***************************************************************************)
(* main: the turn that assembles a payload, stores it, drains and prints.  *)
(* ais.decode is outside the program: a payload decodes to a field set or  *)
(* raises.                                                                 *)
(***************************************************************************)
DecRaise == [raised |-> TRUE, fields |-> EmptyDict]

DecOk(d) == [raised |-> FALSE, fields |-> d]

\* ais.decode(item[0], item[1]), a function of the payload: the payload of a single
\* sentence and that of a message of two sentences decode to position reports of
\* two vessels, any other string of fragments is rejected
Decode(item) ==
    IF item[1] = <<"P">> THEN DecOk([id |-> 1, mmsi |-> 7, nav_status |-> 0])
    ELSE IF item[1] = <<"P", "Q">> THEN DecOk([id |-> 1, mmsi |-> 8, nav_status |-> 0])
    ELSE DecRaise

\* datetime.utcnow() as create_eta reads it: its year and month
FixedUtc == [year |-> 2023, month |-> 1]

Convert(batch, decs, t) ==
    IF out_format = "jsonais" THEN to_jsonais(batch, decs, <<>>, latest, FixedUtc)
    ELSE to_json_msgs(batch, decs, <<>>, latest)

\* res = to_json_msgs(...) or to_jsonais(...), r, and print(res)
Output(r) ==
    /\ pc' = IF r.raised THEN "exc_convert" ELSE "done"
    /\ printed' = IF r.raised \/ r.none THEN NothingPrinted
                  ELSE [out |-> out_format, msgs |-> r.msgs]

\* aivdm_msgs = latest_cache.get_latest(hold_secs), g, at time t, and what follows it
Drain(g, t) ==
    /\ latest_cache' = g.cache
    /\ aivdm_msgs' = g.ret
    /\ IF g.raised \/ Len(g.ret) = 0
       THEN pc' = (IF g.raised THEN "exc_get_latest" ELSE "done") /\ printed' = NothingPrinted
       ELSE Output(Convert(g.ret, [i \in 1..Len(g.ret) |-> Decode(g.ret[i])], t))

\* latest_cache[rxtime] = (full_msg, pad, chan, rxtime) if the channel passes
Store(f, rxtime) ==
    IF ChannelPasses(f.chan)
    THEN SetItem(latest_cache, Num(rxtime), <<f.full_msg, f.pad, f.chan, rxtime>>, maxsize)
    ELSE latest_cache

\* f, a turn that assembles a payload: time.time() gives rxtime, then t in get_latest
Final(l, f) ==
    /\ f.pc = "assembled"
    /\ Locals(l, f)
    /\ \E rxtime \in now..MaxClock, t \in now..MaxClock :
         /\ t \in {rxtime, rxtime + 1}
         /\ now' = t
         /\ Drain(GetLatest(Store(f, rxtime), t, hold_secs, maxsize, maxtime), t)

LineFinal(l) ==
    /\ CanRead
    /\ Final(l, Front(l, jemma, out_format))
    /\ UNCHANGED <<config, call, ret>>

\* readline returns the empty string
EndOfInput ==
    /\ pc # "eof"
    /\ pc' = "eof"
    /\ UNCHANGED <<config, now, jemma, latest_cache, line, full_msg, chan, pad,
                   aivdm_msgs, printed, call, ret>>

Init ==
    /\ \E c \in Configs :
        /\ out_format = c[1]
        /\ channel = c[2]
        /\ hold_secs = c[3]
        /\ latest = c[4]
        /\ maxtime = Maxtime(c[3])
        /\ maxsize = Maxsize(c[3])
    /\ now = 0
    /\ jemma = <<>>
    /\ latest_cache = <<>>
    /\ line = None
    /\ full_msg = <<>>
    /\ chan = None
    /\ pad = 0
    /\ aivdm_msgs = <<>>
    /\ printed = NothingPrinted
    /\ pc = "start"
    /\ call = NoCall
    /\ ret = NoCall

Next ==
    \/ \E l \in Lines : LineNotFinal(l)
    \/ \E l \in Lines : LineFinal(l)
    \/ EndOfInput

Spec == Init /\ [][Next]_vars

\* the runs that release a payload as soon as it is older than the clock reading
InitAssembly == Init /\ hold_secs = 0 /\ out_format # "raw"

SpecAssembly == InitAssembly /\ [][Next]_vars


(***************************************************************************)
(* A LatestCache on its own: LatestCache(maxsize, maxtime), then any       *)
(* sequence of cache[key] = value and cache.get_latest(wait_secs), the     *)
(* keys being readings of the clock as in main.                            *)
(***************************************************************************)
\* the values stored: (full_msg, pad, chan, rxtime) as main builds it, or a tuple
\* of three
CacheValues(t) ==
    {<<<<"P">>, 0, <<"A">>, t>>, <<<<"Q">>, 0, <<"A">>, t>>, <<<<"P">>, 0, <<"A">>>>}

CacheSetItem ==
    \E t \in now..MaxClock :
        \E key \in {Num(t), NotNumber}, value \in CacheValues(t) :
            /\ now' = t
            /\ latest_cache' = SetItem(latest_cache, key, value, maxsize)
            /\ call' = [op |-> "setitem", key |-> key, value |-> value]
            /\ ret' = NoCall
            /\ UNCHANGED <<config, jemma, line, full_msg, chan, pad, aivdm_msgs, printed, pc>>

GotLatest(g, t, wait_secs) ==
    /\ now' = t
    /\ latest_cache' = g.cache
    /\ call' = [op |-> "get_latest", t |-> t, wait_secs |-> wait_secs]
    /\ ret' = [raised |-> g.raised, ret |-> g.ret]

CacheGetLatest ==
    /\ \E t \in now..MaxClock, wait_secs \in 0..MaxCacheAge :
         GotLatest(GetLatest(latest_cache, t, wait_secs, maxsize, maxtime), t, wait_secs)
    /\ UNCHANGED <<config, jemma, line, full_msg, chan, pad, aivdm_msgs, printed, pc>>

InitCache ==
    /\ out_format = "json"
    /\ channel = None
    /\ hold_secs = 0
    /\ latest = FALSE
    /\ maxsize \in 1..MaxCacheSize
    /\ maxtime \in 1..MaxCacheAge
    /\ now = 0
    /\ jemma = <<>>
    /\ latest_cache = <<>>
    /\ line = None
    /\ full_msg = <<>>
    /\ chan = None
    /\ pad = 0
    /\ aivdm_msgs = <<>>
    /\ printed = NothingPrinted
    /\ pc = "start"
    /\ call = NoCall
    /\ ret = NoCall

NextCache == CacheSetItem \/ CacheGetLatest

SpecCache == InitCache /\ [][NextCache]_vars


(***************************************************************************)
(* aivdm_to_jsonais_dict on its own.  The field sets ais.decode gives are  *)
(* built from what a message of each type carries.                         *)
(***************************************************************************)
\* x and y as decoded: [has_x, x, has_y, y].  "unavailable" is the position of a
\* transponder without a fix (181, 91); "nearly_pole" rounds to latitude 90
PositionCases ==
    [absent |-> [has_x |-> FALSE, x |-> Dec(FALSE, 0, 0), has_y |-> FALSE, y |-> Dec(FALSE, 0, 0)],
     x_only |-> [has_x |-> TRUE, x |-> Dec(FALSE, 24, 95234567), has_y |-> FALSE, y |-> Dec(FALSE, 0, 0)],
     valid |-> [has_x |-> TRUE, x |-> Dec(FALSE, 24, 95234567), has_y |-> TRUE, y |-> Dec(FALSE, 60, 15000000)],
     west |-> [has_x |-> TRUE, x |-> Dec(TRUE, 179, 99999990), has_y |-> TRUE, y |-> Dec(TRUE, 89, 50000000)],
     pole |-> [has_x |-> TRUE, x |-> Dec(FALSE, 24, 95234567), has_y |-> TRUE, y |-> Dec(FALSE, 90, 0)],
     south |-> [has_x |-> TRUE, x |-> Dec(FALSE, 24, 95234567), has_y |-> TRUE, y |-> Dec(TRUE, 90, 50000000)],
     nearly_pole |-> [has_x |-> TRUE, x |-> Dec(FALSE, 24, 95234567), has_y |-> TRUE, y |-> Dec(FALSE, 89, 99999996)],
     antimeridian |-> [has_x |-> TRUE, x |-> Dec(TRUE, 180, 0), has_y |-> TRUE, y |-> Dec(FALSE, 60, 15000000)],
     unavailable |-> [has_x |-> TRUE, x |-> Dec(FALSE, 181, 0), has_y |-> TRUE, y |-> Dec(FALSE, 91, 0)]]

WithPosition(d, pos) ==
    PutIf(PutIf(d, PositionCases[pos].has_x, "x", PositionCases[pos].x),
          PositionCases[pos].has_y, "y", PositionCases[pos].y)

Extras == {"none", "nav_status", "sog", "name", "imo_num", "draught", "destination", "gnss"}

\* one more field of the message, or none
WithExtra(d, extra) ==
    IF extra = "nav_status" THEN Put(d, "nav_status", 5)
    ELSE IF extra = "sog" THEN Put(d, "sog", Dec(FALSE, 12, 25000000))
    ELSE IF extra = "name" THEN Put(d, "name", <<"A", "B", " ", "@", "@">>)
    ELSE IF extra = "imo_num" THEN Put(d, "imo_num", 9)
    ELSE IF extra = "draught" THEN Put(d, "draught", Dec(FALSE, 5, 25000000))
    ELSE IF extra = "destination" THEN Put(d, "destination", <<"H", "K", "I", "@">>)
    ELSE IF extra = "gnss" THEN Put(d, "gnss", 1)
    ELSE d

\* the ETA of a type 5 message: absent, or [month, day, hour] at minute 30, the month
\* -1 when the field is absent; month 0 and hour 24 are "not available" on the wire
Eta(month, day, hour) == [has |-> TRUE, month |-> month, day |-> day, hour |-> hour]

EtaCases ==
    {[has |-> FALSE, month |-> -1, day |-> 0, hour |-> 0],
     Eta(-1, 15, 12), Eta(-1, 31, 12), Eta(0, 15, 12), Eta(1, 31, 12), Eta(2, 29, 12),
     Eta(2, 30, 12), Eta(4, 30, 12), Eta(4, 31, 12), Eta(12, 31, 12), Eta(13, 1, 12),
     Eta(6, 0, 12), Eta(6, 15, 24)}

WithEta(d, eta) ==
    IF ~eta.has THEN d
    ELSE PutIf(Put(Put(Put(d, "eta_day", eta.day), "eta_hour", eta.hour), "eta_minute", 30),
               eta.month >= 0, "eta_month", eta.month)

\* the application of a binary message and the counts it carries
WithApp(d, id, app) ==
    IF app = "none" THEN d
    ELSE IF app \in {"persons", "persons_absent"}
    THEN PutIf(Put(Put(d, "dac", 1), "fi", IF id = 6 THEN 40 ELSE 16),
               app = "persons", "persons", 3)
    ELSE IF app = "other" THEN Put(Put(d, "dac", 1), "fi", 31)
    ELSE PutIf(PutIf(Put(Put(d, "dac", 200), "fi", 55),
                     app # "crew_absent", "crew", IF app = "crew" THEN 2 ELSE 0),
               app = "crew", "passengers", 4)

Identified(id) == Put(Put(EmptyDict, "id", id), "mmsi", 7)

\* datetime.utcnow() when create_eta is called: its year and month
Utcs == {[year |-> 2023, month |-> 1], [year |-> 2023, month |-> 4],
         [year |-> 2023, month |-> 11], [year |-> 2023, month |-> 12],
         [year |-> 2024, month |-> 1]}

NormCall(dec, utc) ==
    [op |-> "aivdm_to_jsonais_dict", dec |-> dec, rxtime |-> <<"0">>, utc |-> utc]

NormCalls ==
    {NormCall(DecOk(WithExtra(WithPosition(Identified(id), pos), extra)), FixedUtc) :
        id \in {1, 2, 3, 18, 19, 27}, pos \in DOMAIN PositionCases, extra \in Extras}
    \cup {NormCall(DecOk(WithExtra(WithEta(Identified(id), eta), extra)), utc) :
        id \in {5, 24}, eta \in EtaCases, extra \in Extras, utc \in Utcs}
    \cup {NormCall(DecOk(WithApp(Identified(id), id, app)), FixedUtc) :
        id \in {6, 8},
        app \in {"none", "persons", "persons_absent", "crew", "crew_zero", "crew_absent", "other"}}
    \cup {NormCall(d, FixedUtc) :
        d \in {DecRaise, DecOk(Identified(4)), DecOk(Put(EmptyDict, "id", 1)),
               DecOk(Put(EmptyDict, "mmsi", 7))}}

\* the variables of main, as they are when a function is called on its own
Aside ==
    /\ channel = None
    /\ hold_secs = 0
    /\ maxtime = MinMaxtime
    /\ maxsize = MinMaxsize
    /\ now = 0
    /\ jemma = <<>>
    /\ latest_cache = <<>>
    /\ line = None
    /\ full_msg = <<>>
    /\ chan = None
    /\ pad = 0
    /\ printed = NothingPrinted

InitNorm ==
    /\ Aside
    /\ out_format = "jsonais"
    /\ latest = FALSE
    /\ aivdm_msgs = <<>>
    /\ call \in NormCalls
    /\ ret = NoCall
    /\ pc = "start"

Normalize ==
    /\ pc = "start"
    /\ call.op = "aivdm_to_jsonais_dict"
    /\ ret' = aivdm_to_jsonais_dict(call.dec, call.rxtime, call.utc)
    /\ pc' = "returned"
    /\ UNCHANGED <<config, now, jemma, latest_cache, line, full_msg, chan, pad,
                   aivdm_msgs, printed, call>>

SpecNorm == InitNorm /\ [][Normalize]_vars


(***************************************************************************)
(* to_json_msgs and to_jsonais on their own: a batch of up to MaxBatch     *)
(* payloads, each decoding to one of a few position reports or not at all. *)
(***************************************************************************)
\* position reports: two of the same mmsi, type and fields, one of the same mmsi and
\* type with a name added, one of another mmsi
ReportOf(mmsi, nav_status) == Put(Identified(1), "mmsi", mmsi) @@ [nav_status |-> nav_status]

BatchDecs ==
    {DecRaise, DecOk(ReportOf(7, 0)), DecOk(ReportOf(7, 5)),
     DecOk(Put(ReportOf(7, 0), "name", <<"X">>)), DecOk(ReportOf(8, 0))}

\* no filter, or --kvp mmsi,eq,7
Kvps == {<<>>, <<<<"m", "m", "s", "i", ",", "e", "q", ",", "7">>>>}

InitBatch ==
    /\ Aside
    /\ out_format \in {"json", "jsonais"}
    /\ latest \in BOOLEAN
    /\ \E n \in 1..MaxBatch :
         /\ aivdm_msgs = [i \in 1..n |-> <<<<"P">>, 0, <<"A">>, 0>>]
         /\ \E decs \in [1..n -> BatchDecs], kvp \in Kvps :
              call = [op |-> "convert", decs |-> decs, kvp |-> kvp]
    /\ ret = NoCall
    /\ pc = "start"

Returns(r) ==
    /\ pc = "start"
    /\ call.op = "convert"
    /\ ret' = r
    /\ pc' = "returned"
    /\ UNCHANGED <<config, now, jemma, latest_cache, line, full_msg, chan, pad,
                   aivdm_msgs, printed, call>>

ToJsonMsgs ==
    /\ out_format = "json"
    /\ Returns(to_json_msgs(aivdm_msgs, call.decs, call.kvp, latest))

ToJsonais ==
    /\ out_format = "jsonais"
    /\ Returns(to_jsonais(aivdm_msgs, call.decs, call.kvp, latest, FixedUtc))

NextBatch == ToJsonMsgs \/ ToJsonais

SpecBatch == InitBatch /\ [][NextBatch]_vars


(***************************************************************************)
(* kvp_filter on its own: a record and up to MaxKvp predicates of --kvp.   *)
(* A token is kept with the number it reads as, in tenths, when float()    *)
(* accepts it; a record field with what str() gives for its value.         *)
(***************************************************************************)
MaxKvp == 2

Text(s) == [text |-> s, numeric |-> FALSE, tenths |-> 0]

Number(s, tenths) == [text |-> s, numeric |-> TRUE, tenths |-> tenths]

OpChars ==
    [eq |-> <<"e", "q">>, gt |-> <<"g", "t">>, lt |-> <<"l", "t">>, le |-> <<"l", "e">>,
     ge |-> <<"g", "e">>, contains |-> <<"c", "o", "n", "t", "a", "i", "n", "s">>]

Pred(field, op, operands) == [field |-> field, op |-> op, operands |-> operands]

\* the predicates given: of each operator, with operands that are and are not numbers,
\* and two that lack the operand or the operator as well
FilterPreds ==
    {Pred("mmsi", "eq", <<Number(<<"7">>, 70)>>),
     Pred("mmsi", "eq", <<Number(<<"8">>, 80), Number(<<"7">>, 70)>>),
     Pred("shipname", "eq", <<Text(<<"N", "o", "n", "e">>)>>),
     Pred("speed", "gt", <<Number(<<"1", "0">>, 100)>>),
     Pred("speed", "gt", <<Text(<<"X">>)>>),
     Pred("shipname", "lt", <<Number(<<"1", "0">>, 100)>>),
     Pred("speed", "lt", <<Number(<<"1", "0">>, 100), Number(<<"-", "5">>, -50)>>),
     Pred("speed", "le", <<Number(<<"1", "2", ".", "3">>, 123)>>),
     Pred("speed", "ge", <<Number(<<"1", "2", ".", "3">>, 123)>>),
     Pred("shipname", "contains", <<Text(<<"B">>)>>),
     Pred("mmsi", "eq", <<>>),
     Pred("mmsi", "none", <<>>)}

\* the predicate as typed on the command line
PredText(p) ==
    Join(<<FieldChars[p.field]>> \o (IF p.op = "none" THEN <<>> ELSE <<OpChars[p.op]>>)
            \o [i \in 1..Len(p.operands) |-> p.operands[i].text])

\* the records filtered, each with what str() gives for its fields
FilterRecords ==
    {[val |-> [mmsi |-> 7, msgtype |-> 1, speed |-> Dec(FALSE, 12, 30000000),
               shipname |-> <<"A", "B">>],
      shown |-> [mmsi |-> Number(<<"7">>, 70), msgtype |-> Number(<<"1">>, 10),
                 speed |-> Number(<<"1", "2", ".", "3">>, 123),
                 shipname |-> Text(<<"A", "B">>)]],
     [val |-> [mmsi |-> 8, msgtype |-> 1, speed |-> Whole(-1)],
      shown |-> [mmsi |-> Number(<<"8">>, 80), msgtype |-> Number(<<"1">>, 10),
                 speed |-> Number(<<"-", "1">>, -10)]],
     [val |-> [mmsi |-> 7, msgtype |-> 5, shipname |-> <<"9">>],
      shown |-> [mmsi |-> Number(<<"7">>, 70), msgtype |-> Number(<<"5">>, 50),
                 shipname |-> Number(<<"9">>, 90)]]}

FilterKvps ==
    UNION {[1..n -> {PredText(p) : p \in FilterPreds}] : n \in 0..MaxKvp}

InitFilter ==
    /\ Aside
    /\ out_format = "json"
    /\ latest = FALSE
    /\ aivdm_msgs = <<>>
    /\ \E r \in FilterRecords, kvp \in FilterKvps :
         call = [op |-> "kvp_filter", val |-> r.val, kvp |-> kvp]
    /\ ret = NoCall
    /\ pc = "start"

KvpFilter ==
    /\ pc = "start"
    /\ call.op = "kvp_filter"
    /\ ret' = [ok |-> kvp_filter(call.val, call.kvp)]
    /\ pc' = "returned"
    /\ UNCHANGED <<config, now, jemma, latest_cache, line, full_msg, chan, pad,
                   aivdm_msgs, printed, call>>

SpecFilter == InitFilter /\ [][KvpFilter]_vars


(***************************************************************************)
(* Properties of the reassembly of sentences (main)                        *)
(***************************************************************************)
\* the tuples the cache holds, and those the last turn drained from it
Held == {latest_cache[i].v : i \in 1..Len(latest_cache)}

Batch == {aivdm_msgs[i] : i \in 1..Len(aivdm_msgs)}

\* the two characters after the "*" of a line are not the NMEA checksum (the XOR of
\* the characters between the leading "!" and the "*") of its content
Tampered ==
    [l \in Lines |->
        \E i \in 2..(Len(l) - 2) :
            /\ l[i] = "*"
            /\ <<l[i + 1], l[i + 2]>> # Hex2(XorAll(SubSeq(l, 2, i - 1)))]

\* C1: a line whose trailing checksum does not match the checksum of its content is
\* rejected: its turn ends at the checksum test with the fragment group cleared, the
\* line is not appended to the group and no payload is assembled from it.
C1_TamperedRejected ==
    (line \in Lines /\ Tampered[line] /\ pc # "eof")
        => (pc = "checksum" /\ jemma = <<>> /\ full_msg = <<>>)

\* C2: in json/jsonais mode a payload is assembled only from the sentences of one
\* message: every buffered sentence joined with the closing one has the closing
\* sentence's fragment count and, in arrival order, the fragment index of its place,
\* so a stray 1-of-2 is never joined with a following 1-of-1.
C2_OneMessagePerPayload ==
    [][(out_format # "raw" /\ pc' \in {"done", "exc_convert", "exc_get_latest"})
          => \A i \in 1..Len(jemma) :
                /\ jemma[i][2] = Scan[line'].m[2]
                /\ jemma[i][3] = <<Digits[i + 1]>>]_vars

\* the sentences 1..Len(jem) of a message of n sentences, buffered in arrival order
BufferedPrefix(jem, n) ==
    \A i \in 1..Len(jem) :
        /\ jem[i][1] = AIVDM
        /\ Len(jem[i]) = 7
        /\ jem[i][2] = <<Digits[n + 1]>>
        /\ jem[i][3] = <<Digits[i + 1]>>

\* the payload fields of the buffered sentences and of the closing one, in arrival order
JoinedPayload(jem, m) ==
    Concat([i \in 1..(Len(jem) + 1) |-> IF i <= Len(jem) THEN jem[i][6] ELSE m[6]])

\* sentence k of n arrives, valid and in order, after sentences 1..k-1 of n
InOrderTurn(l) ==
    /\ out_format # "raw"
    /\ line' = l
    /\ pc' # "eof"
    /\ DigitVal(Scan[l].m[3][1]) = Len(jemma) + 1
    /\ BufferedPrefix(jemma, DigitVal(Scan[l].m[2][1]))

\* no payload is produced: the sentence is buffered, the cache and stdout are untouched
Buffers(l) ==
    /\ pc' = "wait"
    /\ jemma' = Append(jemma, Scan[l].m)
    /\ latest_cache' = latest_cache
    /\ aivdm_msgs' = <<>>
    /\ printed' = NothingPrinted

\* exactly one payload is produced, of the buffered payload fields and the closing
\* one in arrival order, with the channel and the fill bits of the closing sentence;
\* it is handed to the cache if its channel is selected; the group is empty afterwards
Produces(l) ==
    /\ pc' \in {"done", "exc_convert", "exc_get_latest"}
    /\ full_msg' = JoinedPayload(jemma, Scan[l].m)
    /\ chan' = Scan[l].m[5]
    /\ pad' = DigitVal(Scan[l].m[7][1])
    /\ jemma' = <<>>
    /\ \A v \in Held' \cup Batch' :
         v \in Held \/ (v[1] = full_msg' /\ v[2] = pad' /\ v[3] = chan' /\ v[4] >= now)
    /\ (channel = None \/ Scan[l].m[5] = channel)
         => \E v \in Held' \cup Batch' :
                v[1] = full_msg' /\ v[2] = pad' /\ v[3] = chan' /\ v[4] >= now

\* C3: from an empty group, when the valid sentences 1/n, ..., n/n arrive in order,
\* no payload is produced before sentence n/n; on it exactly one payload is produced,
\* the concatenation of the payload fields in arrival order with the channel and the
\* fill bits of the final sentence, and the group is empty afterwards.
C3_Reassembly ==
    [][\A l \in GoodLines :
          InOrderTurn(l) =>
              IF Scan[l].m[3] # Scan[l].m[2] THEN Buffers(l) ELSE Produces(l)]_vars

\* a message of two sentences, the first on channel A and the last on channel B, was
\* reassembled
C3_Witness ==
    /\ pc = "done"
    /\ line \in GoodLines
    /\ full_msg = <<"P", "Q">>
    /\ chan = <<"B">>
    /\ pad = 2
    /\ jemma = <<>>
    /\ \E v \in Held \cup Batch : v[1] = <<"P", "Q">> /\ v[3] = <<"B">>


(***************************************************************************)
(* Properties of LatestCache                                               *)
(***************************************************************************)
\* the oldest key: the earliest clock reading among the keys
OldestKey(c) == CHOOSE k \in {c[i].k : i \in 1..Len(c)} : \A i \in 1..Len(c) : k <= c[i].k

\* get_latest was called on a non-empty cache
GetLatestStep == call'.op = "get_latest" /\ Len(latest_cache) > 0

\* one of the two conditions of a release holds when get_latest is called
ReleaseDue ==
    \/ OldestKey(latest_cache) < call'.t - call'.wait_secs
    \/ Len(latest_cache) = maxsize

\* C5: get_latest(hold_secs) on a non-empty cache returns an empty result and leaves
\* the cache unchanged unless the oldest key is strictly less than now - hold_secs or
\* the number of entries equals maxsize; a batch is released only in such a step.
C5_HeldUntilDue ==
    [][(GetLatestStep /\ ~ReleaseDue)
          => (~ret'.raised /\ ret'.ret = <<>> /\ latest_cache' = latest_cache)]_vars

\* get_latest held a cache back whose oldest entry was exactly wait_secs old
C5_Witness ==
    /\ call.op = "get_latest"
    /\ ~ret.raised
    /\ ret.ret = <<>>
    /\ Len(latest_cache) > 0
    /\ latest_cache[1].k = call.t - call.wait_secs
    /\ call.wait_secs > 0

\* C6: when a drain is triggered, every entry whose key is less than now - maxtime is
\* removed and not returned, every other entry is removed and returned, and the cache
\* is empty afterwards; no entry younger than maxtime is dropped as stale.
C6_AllOrNothing ==
    [][(GetLatestStep /\ ReleaseDue)
          => /\ latest_cache' = <<>>
             /\ ~ret'.raised
             /\ \A i \in 1..Len(latest_cache) :
                    (latest_cache[i].k < call'.t - maxtime)
                        <=> ~(\E j \in 1..Len(ret'.ret) : ret'.ret[j] = latest_cache[i].v)
             /\ \A j \in 1..Len(ret'.ret) :
                    \E i \in 1..Len(latest_cache) : ret'.ret[j] = latest_cache[i].v
             /\ \A j, k \in 1..Len(ret'.ret) : ret'.ret[j] = ret'.ret[k] => j = k]_vars

\* a drain returned an entry exactly maxtime old and emptied the cache
C6_Witness ==
    /\ call.op = "get_latest"
    /\ latest_cache = <<>>
    /\ \E j \in 1..Len(ret.ret) : call.t - ret.ret[j][4] = maxtime

\* an accepted insert of a new key into a cache that holds maxsize entries
FullInsert ==
    /\ call'.op = "setitem"
    /\ call'.key.number
    /\ Len(call'.value) = 4
    /\ Len(latest_cache) = maxsize
    /\ \A i \in 1..Len(latest_cache) : latest_cache[i].k # call'.key.n

\* C7: after any sequence of inserts and drains the cache holds at most maxsize
\* entries; an insert that would make the size exceed maxsize evicts exactly one
\* entry, the oldest in insertion order, and keeps all others.
C7_BoundedEvictOldest ==
    /\ [](Len(latest_cache) <= maxsize)
    /\ [][FullInsert
            => latest_cache' = Append(Tail(latest_cache),
                                     [k |-> call'.key.n, v |-> call'.value])]_vars

\* a cache of maxsize 2 is full after an accepted insert of a key later than its first
C7_Witness ==
    /\ call.op = "setitem"
    /\ maxsize = 2
    /\ Len(latest_cache) = 2
    /\ latest_cache[2].k = call.key.n
    /\ latest_cache[1].k = 1
    /\ latest_cache[1].v[1] = <<"Q">>
    /\ latest_cache[2].v[1] = <<"P">>


(***************************************************************************)
(* Properties of the converters                                            *)
(***************************************************************************)
\* what the converter makes of the i-th payload of the batch it was called with: the
\* decoded fields (json), or what the normalizer gives for them (jsonais)
Made(i) ==
    IF out_format = "json"
    THEN [raised |-> call.decs[i].raised, none |-> FALSE, rec |-> call.decs[i].fields]
    ELSE aivdm_to_jsonais_dict(call.decs[i], RxTimeStr(aivdm_msgs[i][4]), FixedUtc)

\* the payloads of the batch that decode to a record that passes the filter
Passing ==
    {i \in 1..Len(aivdm_msgs) :
        ~Made(i).raised /\ ~Made(i).none /\ kvp_filter(Made(i).rec, call.kvp)}

RECURSIVE InOrder(_, _)
InOrder(i, n) ==
    IF i > n THEN <<>>
    ELSE (IF i \in Passing THEN <<Made(i).rec>> ELSE <<>>) \o InOrder(i + 1, n)

\* the decoder failed for a payload of the batch
SomeDecodeFailed == \E i \in 1..Len(aivdm_msgs) : call.decs[i].raised

\* C4: when the decoder raises for one payload of a drained batch, only that payload
\* is dropped: the converter returns, and every other payload that decodes and
\* passes the filter is in the emitted batch exactly once, in the json and in the
\* jsonais format, wherever in the batch the failing payload is.
C4_OnlyFailedDropped ==
    (pc = "returned" /\ call.op = "convert" /\ ~latest /\ SomeDecodeFailed)
        => (~ret.raised /\ ret.msgs = InOrder(1, Len(aivdm_msgs)))

\* the key of latest mode: mmsi, message type and number of fields
KeyOf(rec) ==
    <<rec["mmsi"], rec[IF out_format = "json" THEN "id" ELSE "msgtype"], DictLen(rec)>>

Emitted == 1..Len(ret.msgs)

Same(a, b) == DOMAIN a = DOMAIN b /\ a = b

\* one survivor per key, the last passing record of the batch under it
LastPerKey ==
    /\ \A j, k \in Emitted : KeyOf(ret.msgs[j]) = KeyOf(ret.msgs[k]) => j = k
    /\ \A i \in Passing : \E j \in Emitted : KeyOf(ret.msgs[j]) = KeyOf(Made(i).rec)
    /\ \A j \in Emitted :
         \E i \in Passing :
            /\ Same(ret.msgs[j], Made(i).rec)
            /\ \A i2 \in Passing : i2 > i => KeyOf(Made(i2).rec) # KeyOf(ret.msgs[j])

\* every passing record is in the batch as often as it passed
AllKept ==
    \A i \in Passing :
        Cardinality({j \in Emitted : Same(ret.msgs[j], Made(i).rec)})
            >= Cardinality({i2 \in Passing : Same(Made(i2).rec, Made(i).rec)})

\* C8: in latest mode at most one record of an emitted batch survives per key (mmsi,
\* msgtype, number of fields), the last of the batch that passed the filter under
\* that key; in non-latest mode every record that passes the filter is in the batch,
\* none is overwritten.
C8_LatestKeepsLast ==
    (pc = "returned" /\ call.op = "convert" /\ ~ret.raised)
        => IF latest THEN LastPerKey ELSE AllKept

\* in latest mode a batch was emitted with fewer records than passed the filter, and
\* with two records of one mmsi and type that differ in their number of fields
C8_Witness ==
    /\ pc = "returned"
    /\ call.op = "convert"
    /\ latest
    /\ ~ret.raised
    /\ Len(ret.msgs) = 2
    /\ Cardinality(Passing) = 3
    /\ ret.msgs[1]["mmsi"] = ret.msgs[2]["mmsi"]

(***************************************************************************)
(* Properties of the normalizer                                            *)
(***************************************************************************)
\* the normalizer was called for a decode of type 5 or 24 whose ETA fields pass
\* valid_eta and are no date of the calendar
BadCalendarEta ==
    /\ pc = "returned"
    /\ call.op = "aivdm_to_jsonais_dict"
    /\ ~call.dec.raised
    /\ Has(call.dec.fields, "id")
    /\ Has(call.dec.fields, "mmsi")
    /\ call.dec.fields["id"] \in {5, 24}
    /\ valid_eta(call.dec.fields)
    /\ LET dt == EtaDate(call.dec.fields, call.utc)
       IN dt.month < 1 \/ dt.month > 12 \/ dt.day > DaysInMonth(dt.year, dt.month)

\* C9: for a type 5 or 24 decode whose ETA day, hour and minute pass the range check
\* but form no calendar date with the chosen month, the normalizer returns the
\* record without the eta field; the record is not dropped.
C9_BadEtaOmitted ==
    BadCalendarEta => (~ret.raised /\ ~ret.none /\ ~Has(ret.rec, "eta"))

\* C10: the normalizer never returns a record of the header fields msgtype, mmsi and
\* rxtime alone: a decode that adds no field of its type yields no record.
C10_NoHeaderOnlyRecord ==
    (pc = "returned" /\ call.op = "aivdm_to_jsonais_dict" /\ ~ret.raised /\ ~ret.none)
        => DOMAIN ret.rec # {"msgtype", "mmsi", "rxtime"}


(***************************************************************************)
(* Properties of kvp_filter                                                *)
(***************************************************************************)
\* the predicate a string of the call stands for, and the record's fields as shown
PredOf(item) == CHOOSE p \in FilterPreds : PredText(p) = item

ShownOf(val) == (CHOOSE r \in FilterRecords : r.val = val).shown

\* sub occurs in s
Occurs(sub, s) ==
    \E i \in 0..Len(s) :
        /\ i + Len(sub) <= Len(s)
        /\ \A j \in 1..Len(sub) : s[i + j] = sub[j]

\* the predicate has a field, an operator and an operand, and the value v passes it
PredPasses(p, v) ==
    /\ p.op # "none"
    /\ Len(p.operands) >= 1
    /\ p.op = "eq" => \E i \in 1..Len(p.operands) : p.operands[i].text = v.text
    /\ p.op \in {"gt", "lt", "le", "ge"} => v.numeric /\ p.operands[1].numeric
    /\ p.op = "gt" => v.tenths > p.operands[1].tenths
    /\ p.op = "lt" => v.tenths < p.operands[1].tenths
    /\ p.op = "le" => v.tenths <= p.operands[1].tenths
    /\ p.op = "ge" => v.tenths >= p.operands[1].tenths
    /\ p.op = "contains" => Occurs(p.operands[1].text, v.text)

AllPass(val, kvp) ==
    \A i \in 1..Len(kvp) :
        LET p == PredOf(kvp[i])
        IN PredPasses(p, IF Has(ShownOf(val), p.field) THEN ShownOf(val)[p.field]
                         ELSE Text(<<"N", "o", "n", "e">>))

\* C11: kvp_filter accepts a record exactly when every predicate of the set has a
\* field, an operator and at least one operand and passes under its operator (eq: the
\* value as a string is one of the operands; gt, lt, le, ge: both the value and the
\* first operand are numbers and compare so; contains: the first operand is a
\* substring of the value).  So the empty set accepts every record and a set with a
\* predicate lacking its operator or operand rejects every record, wherever it stands.
C11_FilterIffAllPass ==
    (pc = "returned" /\ call.op = "kvp_filter")
        => (ret.ok <=> AllPass(call.val, call.kvp))

\* a set whose first predicate passes and whose second lacks its operand was rejected
C11_Witness ==
    /\ pc = "returned"
    /\ call.op = "kvp_filter"
    /\ Len(call.kvp) = 2
    /\ PredPasses(PredOf(call.kvp[1]), ShownOf(call.val)[PredOf(call.kvp[1]).field])
    /\ PredOf(call.kvp[2]) = Pred("mmsi", "eq", <<>>)
    /\ ~ret.ok


(***************************************************************************)
(* Properties of the positions the normalizer emits                        *)
(***************************************************************************)
\* the normalizer returned from a decode carrying mmsi and a type among ids
NormalizedOf(ids) ==
    /\ pc = "returned"
    /\ call.op = "aivdm_to_jsonais_dict"
    /\ ~call.dec.raised
    /\ Has(call.dec.fields, "id")
    /\ Has(call.dec.fields, "mmsi")
    /\ call.dec.fields["id"] \in ids

\* the decode carries both coordinates and one of them is out of range
OutOfRange(d) == Has(d, "x") /\ Has(d, "y") /\ (d["y"].int >= 90 \/ d["x"].int >= 180)

\* C12: for the types 1, 2, 3, 18, 19 and 27 a decode with both coordinates and
\* |lat| >= 90 or |lon| >= 180 gives no record at all, for type 27 a decode lacking a
\* coordinate gives no record either, and every record returned with lat or lon has
\* both, with |lat| < 90 and |lon| < 180.
C12_PositionInRange ==
    /\ (NormalizedOf(CNBTypes \cup {27}) /\ OutOfRange(call.dec.fields)) => ret.none
    /\ (NormalizedOf({27}) /\ ~(Has(call.dec.fields, "x") /\ Has(call.dec.fields, "y")))
          => ret.none
    /\ (pc = "returned" /\ call.op = "aivdm_to_jsonais_dict" /\ ~ret.raised /\ ~ret.none
          /\ (Has(ret.rec, "lat") \/ Has(ret.rec, "lon")))
          => /\ Has(ret.rec, "lat") /\ Has(ret.rec, "lon")
             /\ ret.rec["lat"].int < 90
             /\ ret.rec["lon"].int < 180

\* a type 18 decode at longitude -180 and a valid latitude gave no record
C12_Witness ==
    /\ NormalizedOf({18})
    /\ OutOfRange(call.dec.fields)
    /\ call.dec.fields["x"] = Dec(TRUE, 180, 0)
    /\ call.dec.fields["y"].int < 90
    /\ ret.none


(***************************************************************************)
(* Properties of the order of emission (main)                              *)
(***************************************************************************)
\* the step is a turn of the loop that assembled a payload
FinalTurn == out_format # "raw" /\ pc' \in {"done", "exc_convert", "exc_get_latest"}

\* the maps from 1..n to 1..m that never step back, or always step forward
Rising(n, m, strictly) ==
    {f \in [1..n -> 1..m] :
        \A i, j \in 1..n : i < j => (f[i] < f[j] \/ (~strictly /\ f[i] = f[j]))}

\* the payload tuple the turn built, whatever the clock gave it
IsNew(v) == v[1] = full_msg' /\ v[2] = pad' /\ v[3] = chan' /\ v[4] \in now..now'

\* vs are payloads of the cache before the turn in its order, the new payload last
InReceiveOrder(vs) ==
    \E f \in Rising(Len(vs), Len(latest_cache) + 1, TRUE) :
        \A i \in 1..Len(vs) :
            IF f[i] <= Len(latest_cache) THEN vs[i] = latest_cache[f[i]].v ELSE IsNew(vs[i])

\* no payload still held was received before one of the batch
BatchBeforeHeld ==
    \A i, j \in 1..Len(latest_cache) :
        (/\ \E k \in 1..Len(latest_cache') : latest_cache'[k] = latest_cache[i]
         /\ \E k \in 1..Len(aivdm_msgs') : aivdm_msgs'[k] = latest_cache[j].v) => j < i

\* the record rec was made from the payload tuple v
RecordOf(rec, v) ==
    /\ ~Decode(v).raised
    /\ IF out_format = "json" THEN Same(rec, Decode(v).fields)
       ELSE rec["mmsi"] = Decode(v).fields["mmsi"] /\ rec["rxtime"] = RxTimeStr(v[4])

\* C13: without --latest a batch holds payloads in the order they were completed (the
\* order of the cache, the payload of the turn last), what stays in the cache keeps
\* that order and was received after every payload of the batch, and the records
\* printed follow the order of the payloads they were made from.
C13_EmittedInReceiveOrder ==
    [][(FinalTurn /\ ~latest)
          => /\ InReceiveOrder(aivdm_msgs')
             /\ InReceiveOrder(Values(latest_cache'))
             /\ BatchBeforeHeld
             /\ printed'.out # "nothing"
                   => \E g \in Rising(Len(printed'.msgs), Len(aivdm_msgs'), out_format = "jsonais") :
                         \A k \in 1..Len(printed'.msgs) :
                             RecordOf(printed'.msgs[k], aivdm_msgs'[g[k]])]_vars

\* a batch of two payloads decoding to different vessels was printed as two records
C13_Witness ==
    /\ ~latest
    /\ pc = "done"
    /\ Len(aivdm_msgs) = 2
    /\ ~Decode(aivdm_msgs[1]).raised
    /\ ~Decode(aivdm_msgs[2]).raised
    /\ Decode(aivdm_msgs[1]) # Decode(aivdm_msgs[2])
    /\ printed.out \in {"json", "jsonais"}
    /\ Len(printed.msgs) = 2


(***************************************************************************)
(* Properties of get_latest on an empty cache                              *)
(***************************************************************************)
\* C14: get_latest called on an empty cache returns an empty result and raises no
\* error.
C14_EmptyReturnsEmpty ==
    [][(call'.op = "get_latest" /\ latest_cache = <<>>)
          => (~ret'.raised /\ ret'.ret = <<>>)]_vars


(***************************************************************************)
(* Properties of the lines main passes over                                *)
(***************************************************************************)
\* C15: a line that does not start with the AIVDM tag, a blank or very short line
\* included, is skipped: its turn raises no error and leaves the fragment group and
\* the cache as they were.
C15_OtherLinesSkipped ==
    [][(pc' # "eof" /\ Take(line', 6) # AIVDM)
          => (pc' = "skip" /\ jemma' = jemma /\ latest_cache' = latest_cache)]_vars


\* C16: the turn of an AIVDM line that does not split into exactly 7 fields ends at
\* the test of the fields with the fragment group cleared; it builds no payload,
\* stores and prints nothing; the payload of a sentence closing a message right after
\* it is the payload field of that sentence alone.
C16_BadFieldsReset ==
    [][/\ (pc' # "eof" /\ Scan[line'].tag = AIVDM /\ Len(Scan[line'].m) # 7)
            => /\ pc' = "fields"
               /\ jemma' = <<>>
               /\ full_msg' = <<>>
               /\ latest_cache' = latest_cache
               /\ aivdm_msgs' = <<>>
               /\ printed' = NothingPrinted
       /\ (pc = "fields" /\ FinalTurn) => full_msg' = Scan[line'].m[6]]_vars

\* in json or jsonais mode the turn of an AIVDM line of 6 fields has ended with the
\* group empty
C16_Witness ==
    /\ out_format # "raw"
    /\ pc = "fields"
    /\ line \in BadFieldLines
    /\ Len(Split(line)) = 6
    /\ jemma = <<>>


(***************************************************************************)
(* Properties of the year of the ETA                                       *)
(***************************************************************************)
\* the normalizer returned from a type 5 or 24 decode with valid ETA day, hour and
\* minute and no ETA month, called in December
MonthlessInDecember ==
    /\ NormalizedOf(StaticTypes)
    /\ valid_eta(call.dec.fields)
    /\ ~Has(call.dec.fields, "eta_month")
    /\ call.utc.month = 12

\* C17 as stated: such an ETA is built with the year after the current UTC year.
C17_NextYearInDecember ==
    MonthlessInDecember => EtaDate(call.dec.fields, call.utc).year = call.utc.year + 1

\* C17, amended: such an ETA is built in month 12 of the current UTC year, and the
\* record carries it as a date of December.
C17_ThisYearInDecember ==
    MonthlessInDecember
        => /\ EtaDate(call.dec.fields, call.utc).year = call.utc.year
           /\ EtaDate(call.dec.fields, call.utc).month = 12
           /\ ~ret.raised
           /\ ~ret.none
           /\ Has(ret.rec, "eta")
           /\ Take(ret.rec["eta"], 3) = <<"D", "e", "c">>

\* a decode with ETA day 31 and no month was given its ETA in December
C17_Witness ==
    /\ MonthlessInDecember
    /\ call.dec.fields["eta_day"] = 31
    /\ ~ret.raised
    /\ Has(ret.rec, "eta")


(***************************************************************************)
(* Properties of the cache in the pipeline (main)                          *)
(***************************************************************************)
\* C18: in json or jsonais mode, when the run has ended at the end of the input no
\* payload is left in the cache: each one stored was returned by a drain or dropped as
\* stale.
C18_NothingLeftAtEnd ==
    (pc = "eof" /\ out_format # "raw") => latest_cache = <<>>


\* the entry e held before the turn is held after it, or was returned by the drain
\* of the turn, or dropped by it as older than maxtime, or the payload of the turn was
\* stored under its key
StillHeldOrDrained(e) ==
    \/ \E k \in 1..Len(latest_cache') : latest_cache'[k] = e
    \/ e.v \in Batch'
    \/ (latest_cache' = <<>> /\ e.k < now' - maxtime)
    \/ \E v \in Held' \cup Batch' : IsNew(v) /\ v[4] = e.k

\* C19: in json or jsonais mode the cache holds fewer than maxsize entries after every
\* turn of the loop; so the insert of a turn, whatever the clock reads, never leaves
\* more than maxsize entries for popitem to take one from, and an entry goes from the
\* cache only in a drain (or when a payload is stored under the same clock reading).
C19_BelowMaxsize ==
    /\ [](out_format # "raw" => Len(latest_cache) < maxsize)
    /\ [][FinalTurn
            => /\ \A r \in now..now' :
                    Len(MoveToEnd(latest_cache, r, <<full_msg', pad', chan', r>>)) <= maxsize
               /\ \A i \in 1..Len(latest_cache) : StillHeldOrDrained(latest_cache[i])]_vars

\* a payload is held back, one short of maxsize, in a run that holds payloads 2 ticks
C19_Witness ==
    /\ out_format # "raw"
    /\ hold_secs > 0
    /\ pc = "done"
    /\ Len(latest_cache) = maxsize - 1
    /\ Len(latest_cache) > 0


(***************************************************************************)
(* Properties of the fragment group between turns (main)                   *)
(***************************************************************************)
\* the turn appends a sentence whose fragment index equals its fragment count
AppendsFinal ==
    /\ out_format # "raw"
    /\ pc' # "eof"
    /\ line' \in Lines
    /\ ~Scan[line'].short
    /\ ~Scan[line'].rejected
    /\ Scan[line'].tag = AIVDM
    /\ Len(Scan[line'].m) = 7
    /\ Scan[line'].m[2] = Scan[line'].m[3]

\* C20: between turns the fragment group holds only sentences whose fragment index
\* differs from their fragment count: after a turn that appends a final sentence the
\* group is empty, whether its payload was stored, excluded by the channel filter, or
\* the turn ended in an exception.
C20_GroupHoldsNoFinal ==
    /\ [](\A i \in 1..Len(jemma) : jemma[i][2] # jemma[i][3])
    /\ [][AppendsFinal
            => /\ jemma' = <<>>
               /\ pc' \in {"done", "exc_convert", "exc_get_latest", "exc_pad"}]_vars

\* a final sentence on a channel the filter excludes met an empty cache: the turn ended
\* in the exception of get_latest, with the group empty
C20_Witness ==
    /\ pc = "exc_get_latest"
    /\ channel # None
    /\ chan # channel
    /\ Scan[line].m[2] = Scan[line].m[3]
    /\ jemma = <<>>

=============================================================================
